---- MODULE Spec2Model ----
(***************************************************************************)
(* A model of gazenot's client (src/src/client.rs): construction and       *)
(* authentication, URL derivation, the bulk operations that spawn one task *)
(* per unit of work and join them in submission order, and the two         *)
(* response classifiers.                                                   *)
(*                                                                         *)
(* Strings are sequences of tokens, so that format!(..) is concatenation   *)
(* and a missing separator is visible.  Option<T> is a tagged record.      *)
(***************************************************************************)
EXTENDS Integers, Sequences, FiniteSets, TLC

VARIABLES
    env,        \* state of the AXO_RELEASES_TOKEN environment variable
    envReads,   \* number of times the process read that variable
    args,       \* the (source_host, owner) a constructor is called with
    newRet,     \* what the constructor returned
    client,     \* the Gazenot client, when one exists
    pc,         \* position of the caller
    op,         \* the bulk operation in progress and its input
    k,          \* index of the next unit of work the spawn loop visits
    derived,    \* result of every URL derivation the operation has made
    queries,    \* Vec<(desc, url, JoinHandle)> of the operation
    tasks,      \* the spawned tasks, by JoinHandle
    j,          \* index of the query join_all awaits next
    results,    \* the Vec<T> join_all has collected so far
    ret,        \* what the bulk operation returned
    completed,  \* the JoinHandles of the finished tasks, in completion order
    resp,       \* classifier harness: the response handed to a classifier
    out,        \* classifier harness: what each classifier returned
    urlArgs,    \* URL harness: the derivation called and its arguments
    urlRet      \* URL harness: what the derivation returned

vars == <<env, envReads, args, newRet, client, pc, op, k, derived, queries,
          tasks, j, results, ret, completed, resp, out, urlArgs, urlRet>>

---------------------------------------------------------------------------
(* Bounds *)

\* longest input collection of a bulk operation (units of work)
MaxItems == 2
\* longest list of server-supplied error strings in an envelope
MaxErrors == 2

---------------------------------------------------------------------------
(* Option, Result *)

None == [tag |-> "None"]
Some(x) == [tag |-> "Some", v |-> x]
IsSome(o) == o.tag = "Some"

Ok(x) == [tag |-> "Ok", val |-> x]
Err(e) == [tag |-> "Err", err |-> e]
IsOk(r) == r.tag = "Ok"
IsErr(r) == r.tag = "Err"
NoRet == [tag |-> "NoRet"]
\* no bulk operation called yet; an operation is told from another by its
\* kind, the first thing TLC compares in two operations
NoOp == [kind |-> "none"]
Unit == [unit |-> "()"]

SeqsUpTo(S, n) == UNION {[1..m -> S] : m \in 0..n}

---------------------------------------------------------------------------
(* HTTP responses and the wire envelope *)

\* reqwest::StatusCode values a response may carry
StatusCodes == {199, 200, 299, 300, 404}

\* StatusCode::is_success
is_success(status) == status >= 200 /\ status < 300

BoolStr(b) == IF b THEN "true" ELSE "false"

\* the strings a server puts in .errors
ErrorStrings == {<<"e1">>, <<"e2">>}
\* the payloads (T) a server puts in .result
Payloads == {"payloadA", "payloadB"}

\* JSON documents a server may answer with: each member of the envelope is
\* absent, null, of the wrong type, or well typed
JsonDocs ==
    [success : {"absent", "true", "false", "wrongtype"},
     result  : {[is |-> "absent"], [is |-> "null"], [is |-> "wrongtype"]}
               \cup {[is |-> "value", payload |-> p] : p \in Payloads},
     errors  : {[is |-> "absent"], [is |-> "null"], [is |-> "wrongtype"]}
               \cup {[is |-> "array", items |-> es] :
                       es \in SeqsUpTo(ErrorStrings, MaxErrors)}]

RECURSIVE Flatten(_)
Flatten(ss) == IF ss = <<>> THEN <<>> ELSE Head(ss) \o Flatten(Tail(ss))

\* the members a JSON document spells out, in order
JsonMembers(d) ==
    (CASE d.success = "absent" -> <<>>
       [] d.success = "true" -> << <<"\"success\":true">> >>
       [] d.success = "false" -> << <<"\"success\":false">> >>
       [] OTHER -> << <<"\"success\":1">> >>)
    \o (CASE d.result.is = "absent" -> <<>>
          [] d.result.is = "null" -> << <<"\"result\":null">> >>
          [] d.result.is = "wrongtype" -> << <<"\"result\":3">> >>
          [] OTHER -> << <<"\"result\":", d.result.payload>> >>)
    \o (CASE d.errors.is = "absent" -> <<>>
          [] d.errors.is = "null" -> << <<"\"errors\":null">> >>
          [] d.errors.is = "wrongtype" -> << <<"\"errors\":7">> >>
          [] OTHER -> << <<"\"errors\":[">> \o Flatten(d.errors.items)
                         \o <<"]">> >>)

RECURSIVE JoinWith(_, _)
JoinWith(ss, sep) ==
    IF ss = <<>> THEN <<>>
    ELSE IF Len(ss) = 1 THEN Head(ss)
    ELSE Head(ss) \o <<sep>> \o JoinWith(Tail(ss), sep)

\* the text of a JSON document, as the server sends it
JsonText(d) == <<"{">> \o JoinWith(JsonMembers(d), ",") \o <<"}">>

\* bodies that are not JSON at all: the empty body and a plain-text body
PlainTexts == {<<>>, <<"oops">>}

\* every body text a response may carry
BodyTexts == PlainTexts \cup {JsonText(d) : d \in JsonDocs}


\* the texts that are JSON documents, and the document each one spells
JsonTexts == {JsonText(d) : d \in JsonDocs}
JsonDocOf == [t \in JsonTexts |-> CHOOSE d \in JsonDocs : JsonText(d) = t]

\* struct Response<T> { success: bool, result: Option<T>, errors: Option<Vec<String>> }
\* as serde_json::from_str reads it: a required bool, two optional members
\* (absent or null is None), a type mismatch in any member is a parse error
ParseResponse(text) ==
    IF text \in JsonTexts
    THEN LET d == JsonDocOf[text] IN
         IF d.success \in {"true", "false"}
            /\ d.result.is # "wrongtype"
            /\ d.errors.is # "wrongtype"
         THEN Ok([success |-> d.success = "true",
                  result  |-> IF d.result.is = "value"
                              THEN Some(d.result.payload) ELSE None,
                  errors  |-> IF d.errors.is = "array"
                              THEN Some(d.errors.items) ELSE None])
         ELSE Err(text)
    ELSE Err(text)

\* struct BasicResponse { success: bool, errors: Option<Vec<String>> }: a
\* result member, of whatever type, is an unknown field and is skipped
ParseBasicResponse(text) ==
    IF text \in JsonTexts
    THEN LET d == JsonDocOf[text] IN
         IF d.success \in {"true", "false"} /\ d.errors.is # "wrongtype"
         THEN Ok([success |-> d.success = "true",
                  errors  |-> IF d.errors.is = "array"
                              THEN Some(d.errors.items) ELSE None])
         ELSE Err(text)
    ELSE Err(text)

\* Option::unwrap_or_default on Option<Vec<String>>
unwrap_or_default(o) == IF IsSome(o) THEN o.v ELSE <<>>

ResponseError(status, errors) ==
    [kind |-> "ResponseError", status |-> status, errors |-> errors]
ReqwestError == [kind |-> "Reqwest"]

\* a variant that wraps the body text without looking at its length
RawTextErrorsAlways(text) == <<text>>

\* the message list built when the body does not parse
RawTextErrors(text) == IF text = <<>> THEN <<>> ELSE <<text>>

\* a variant that trusts the success flag alone
everything_agrees_flag_only(status, parsed) == parsed.success

\* "Only return success if everything agrees": the outer test of both
\* classifiers
everything_agrees(status, parsed) == parsed.success /\ is_success(status)

\* a variant that compares the success flag with the status only
has_cohesion_without_result(status, parsed) ==
    parsed.success = is_success(status)

\* has_cohesion of process_response
has_cohesion(status, parsed) ==
    /\ parsed.success = is_success(status)
    /\ parsed.success = IsSome(parsed.result)

\* extra_error of process_response: None, or the formatted diagnostic
extra_error(status, parsed) ==
    IF ~has_cohesion(status, parsed)
    THEN Some(<<"server response inconsistently reported success -- status: ",
                ToString(status), ", .success: ", BoolStr(parsed.success),
                ", .result.is_some(): ", BoolStr(IsSome(parsed.result))>>)
    ELSE None

\* a variant that puts the optional element first
chain_front(es, o) == IF IsSome(o) THEN <<o.v>> \o es ELSE es

\* Iterator::chain of a Vec with an Option
chain(es, o) == IF IsSome(o) THEN Append(es, o.v) ELSE es

\* process_response: r is the reqwest::Response (status, body, and whether
\* reading the body succeeds)
process_response(r) ==
    IF ~r.readable THEN Err(ReqwestError)
    ELSE LET parsed == ParseResponse(r.text) IN
         IF IsErr(parsed)
         THEN Err(ResponseError(r.status, RawTextErrors(r.text)))
         ELSE IF everything_agrees(r.status, parsed.val)
                 /\ IsSome(parsed.val.result)
              THEN Ok(parsed.val.result.v)
              ELSE Err(ResponseError(r.status,
                        chain(unwrap_or_default(parsed.val.errors),
                              extra_error(r.status, parsed.val))))

\* a variant that reports cohesion when the two signals differ
has_cohesion_basic_inverted(status, parsed) ==
    parsed.success # is_success(status)

\* has_cohesion of process_response_basic
has_cohesion_basic(status, parsed) == parsed.success = is_success(status)

\* extra_error of process_response_basic
extra_error_basic(status, parsed) ==
    IF ~has_cohesion_basic(status, parsed)
    THEN Some(<<"server response inconsistently reported success -- status: ",
                ToString(status), ", .success: ", BoolStr(parsed.success)>>)
    ELSE None

process_response_basic(r) ==
    IF ~r.readable THEN Err(ReqwestError)
    ELSE LET parsed == ParseBasicResponse(r.text) IN
         IF IsErr(parsed)
         THEN Err(ResponseError(r.status, RawTextErrors(r.text)))
         ELSE IF everything_agrees(r.status, parsed.val)
              THEN Ok(Unit)
              ELSE Err(ResponseError(r.status,
                        chain(unwrap_or_default(parsed.val.errors),
                              extra_error_basic(r.status, parsed.val))))

\* every response a server (or a failing connection) may produce
Responses == [status : StatusCodes, text : BodyTexts, readable : BOOLEAN]

---------------------------------------------------------------------------
(* Construction and authentication *)

\* GazenotError::new(desc, cause): an error decorated with a description
GazenotError_new(desc, cause) == [desc |-> desc, url |-> None, cause |-> cause]

\* GazenotError::with_url(desc, url, cause): decorated with the URL as well
GazenotError_with_url(desc, url, cause) ==
    [desc |-> desc, url |-> Some(url), cause |-> cause]

\* what std::env::var("AXO_RELEASES_TOKEN") can find
EnvStates ==
    {[state |-> "unset"], [state |-> "notunicode"]}
    \cup {[state |-> "set", value |-> v] :
            v \in {<<>>, <<"bad\nvalue">>, <<"s3cret">>}}

\* the identities a caller may pass to a constructor
SourceHosts == {<<"github">>, <<"gitlab">>, <<"git\nhub">>}
Owners == {<<"axodotdev">>, <<"me">>, <<"ow\rner">>}

\* tokens holding a byte that HeaderValue::from_str rejects
InvalidHeaderTokens == {"bad\nvalue", "git\nhub", "ow\rner"}

HeaderValue_from_str(s) ==
    IF \E i \in 1..Len(s) : s[i] \in InvalidHeaderTokens
    THEN Err([kind |-> "InvalidHeaderValue"])
    ELSE Ok(s)

\* std::env::var: Err when the variable is unset or is not unicode
env_var(e) == IF e.state = "set" THEN Ok(e.value) ELSE Err(e.state)

AuthKey(reason) ==
    [kind |-> "AuthKey", reason |-> reason,
     env_var_name |-> "AXO_RELEASES_TOKEN"]

\* a variant that never finds the token empty
is_empty_never(s) == FALSE

\* String::is_empty
is_empty(s) == s = <<>>

\* HeaderMap::new()
EmptyHeaderMap == {}

\* auth_headers, given what the environment holds
auth_headers(e, source, owner) ==
    LET auth_key == env_var(e) IN
    IF IsErr(auth_key) THEN Err(AuthKey("could not load env var"))
    ELSE IF is_empty(auth_key.val) THEN Err(AuthKey("no value in env var"))
    ELSE LET auth == HeaderValue_from_str(<<"Bearer ">> \o auth_key.val)
             id == HeaderValue_from_str(source \o <<"/">> \o owner)
         IN  IF IsErr(auth)
             THEN Err(AuthKey("had invalid characters for an http header"))
             ELSE IF IsErr(id) THEN Err(id.err)
             ELSE Ok({<<"authorization", auth.val>>,
                      <<"x-axo-identifier", id.val>>})

\* API_SERVER and HOSTING_SERVER of new_with_auth_headers
API_SERVER == <<"axo-abyss.fly.dev">>
HOSTING_SERVER == <<"artifacts.axodotdev.host">>

\* new_with_auth_headers; built says whether Client::builder().build()
\* succeeded
new_with_auth_headers(source_host, owner, headers, built) ==
    IF ~built
    THEN Err(GazenotError_new(
               <<"create http client for axodotdev hosting (abyss)">>,
               ReqwestError))
    ELSE Ok([api_server |-> API_SERVER, hosting_server |-> HOSTING_SERVER,
             owner |-> owner, source_host |-> source_host,
             auth_headers |-> headers])

\* Gazenot::new as a function of the environment and of the build outcome
Gazenot_new(e, source_host, owner, built) ==
    LET hdrs == auth_headers(e, source_host, owner) IN
    IF IsErr(hdrs)
    THEN Err(GazenotError_new(<<"initializing Abyss authentication">>,
                              hdrs.err))
    ELSE new_with_auth_headers(source_host, owner, hdrs.val, built)

\* Gazenot::new_unauthed
Gazenot_new_unauthed(source_host, owner, built) ==
    new_with_auth_headers(source_host, owner, EmptyHeaderMap, built)

NoClient == [tag |-> "NoClient"]
NoArgs == [tag |-> "NoArgs"]

clientVars == <<env, envReads, args, newRet, client>>
opVars == <<pc, op, k, derived, queries, tasks, j, results, ret, completed>>
classifyVars == <<resp, out>>
urlVars == <<urlArgs, urlRet>>

\* the variables of the bulk operations and of the classifier harness, at rest
OpAtRest ==
    /\ pc = "idle" /\ op = NoOp /\ k = 1
    /\ derived = <<>> /\ queries = <<>> /\ tasks = <<>> /\ j = 1
    /\ results = <<>> /\ ret = NoRet /\ completed = <<>>
ClassifyAtRest ==
    /\ resp = [status |-> 200, text |-> <<>>, readable |-> TRUE]
    /\ out = [typed |-> NoRet, basic |-> NoRet]
UrlAtRest == urlArgs = NoArgs /\ urlRet = NoRet

InitNew ==
    /\ env \in EnvStates
    /\ envReads = 0 /\ args = NoArgs /\ newRet = NoRet /\ client = NoClient
    /\ OpAtRest /\ ClassifyAtRest /\ UrlAtRest

\* Gazenot::new (and its alias into_the_abyss)
New ==
    /\ newRet = NoRet
    /\ \E sh \in SourceHosts, ow \in Owners, built \in BOOLEAN :
         LET r == Gazenot_new(env, sh, ow, built) IN
         /\ args' = [fn |-> "new", source_host |-> sh, owner |-> ow]
         /\ envReads' = envReads + 1     \* auth_headers reads the variable
         /\ newRet' = r
         /\ client' = IF IsOk(r) THEN r.val ELSE NoClient
    /\ UNCHANGED <<env, opVars, classifyVars, urlVars>>

\* Gazenot::new_unauthed
NewUnauthed ==
    /\ newRet = NoRet
    /\ \E sh \in SourceHosts, ow \in Owners, built \in BOOLEAN :
         LET r == Gazenot_new_unauthed(sh, ow, built) IN
         /\ args' = [fn |-> "new_unauthed", source_host |-> sh, owner |-> ow]
         /\ newRet' = r
         /\ client' = IF IsOk(r) THEN r.val ELSE NoClient
    /\ UNCHANGED <<env, envReads, opVars, classifyVars, urlVars>>

NextNew == New \/ NewUnauthed

SpecNew == InitNew /\ [][NextNew]_vars

---------------------------------------------------------------------------
(* URL derivation *)

Schemes == {"https://", "http://"}

\* Url::from_str: an absolute URL needs a scheme and a host; a URL with no
\* path gets the path "/"
Url_from_str(s) ==
    IF Len(s) >= 2 /\ s[1] \in Schemes /\ s[2] # "/"
    THEN Ok([scheme |-> s[1], host |-> s[2],
             path |-> IF Len(s) = 2 THEN <<"/">> ELSE SubSeq(s, 3, Len(s))])
    ELSE Err([kind |-> "UrlError", input |-> s])

\* a variant that prints the origin only
Url_to_string_origin(u) == <<u.scheme, u.host>>

\* Url::to_string
Url_to_string(u) == <<u.scheme, u.host>> \o u.path

\* a variant that takes the default whatever the option holds
unwrap_or_else_default(o, default) == default

\* Option::unwrap_or_else
unwrap_or_else(o, default) == IF IsSome(o) THEN o.v ELSE default

create_artifact_set_url(c, package) ==
    Url_from_str(<<"https://">> \o c.api_server \o <<"/">> \o c.source_host
                 \o <<"/">> \o c.owner \o <<"/">> \o package
                 \o <<"/artifacts">>)

download_artifact_set_url(c, set, filename) ==
    LET base == unwrap_or_else(set.set_download_url,
                    <<"https://">> \o c.owner \o <<".">> \o c.hosting_server
                    \o <<"/">> \o set.package \o <<"/">> \o set.public_id)
    IN  Url_from_str(base \o <<"/">> \o filename)

upload_artifact_set_url(c, set, filename) ==
    LET base == unwrap_or_else(set.upload_url,
                    <<"https://">> \o c.api_server \o <<"/">> \o c.source_host
                    \o <<"/">> \o c.owner \o <<"/">> \o set.package
                    \o <<"/artifacts/">> \o set.public_id \o <<"/upload">>)
    IN  Url_from_str(base \o <<"/">> \o filename)

\* a variant that leaves the package out of the default
create_release_url_without_package(c, set) ==
    Url_from_str(unwrap_or_else(set.release_url,
                    <<"https://">> \o c.api_server \o <<"/">> \o c.source_host
                    \o <<"/">> \o c.owner \o <<"/releases">>))

create_release_url(c, set) ==
    Url_from_str(unwrap_or_else(set.release_url,
                    <<"https://">> \o c.api_server \o <<"/">> \o c.source_host
                    \o <<"/">> \o c.owner \o <<"/">> \o set.package
                    \o <<"/releases">>))

create_announcement_url(c, release) ==
    Url_from_str(unwrap_or_else(release.announce_url,
                    <<"https://">> \o c.api_server \o <<"/">> \o c.source_host
                    \o <<"/">> \o c.owner \o <<"/announcements">>))

\* the format string of list_releases_url has no separator between
\* {source_host} and {owner}
list_releases_url(c, package) ==
    Url_from_str(<<"https://">> \o c.api_server \o <<"/">> \o c.source_host
                 \o c.owner \o <<"/">> \o package \o <<"/releases">>)

---------------------------------------------------------------------------
(* The inputs of the bulk operations *)

Packages == {<<"app">>, <<"lib">>}

\* the public_id of the mock sentinel
MockId == <<"mock-artifact-set">>

\* ArtifactSet::is_mock
is_mock(set) == set.public_id = MockId

\* a set with the default endpoints, a set whose endpoints the server
\* relocated, a set whose relocated endpoints are not URLs, and the mock
PlainSet ==
    [package |-> <<"app">>, public_id |-> <<"id1">>,
     set_download_url |-> None, upload_url |-> None, release_url |-> None,
     announce_url |-> None]
RelocatedSet ==
    [package |-> <<"lib">>, public_id |-> <<"id2">>,
     set_download_url |-> Some(<<"https://", "cdn.example", "/dl">>),
     upload_url |-> Some(<<"https://", "cdn.example", "/up">>),
     release_url |-> Some(<<"https://", "cdn.example", "/rel">>),
     announce_url |-> Some(<<"https://", "cdn.example", "/ann">>)]
BrokenSet ==
    [package |-> <<"app">>, public_id |-> <<"id3">>,
     set_download_url |-> Some(<<"not a url">>),
     upload_url |-> Some(<<"not a url">>),
     release_url |-> Some(<<"not a url">>),
     announce_url |-> Some(<<"not a url">>)]
MockSet ==
    [package |-> <<"lib">>, public_id |-> MockId,
     set_download_url |-> None, upload_url |-> None, release_url |-> None,
     announce_url |-> None]
ArtifactSets == {PlainSet, RelocatedSet, BrokenSet, MockSet}

\* paths of files to upload; ".." has no final component
Paths == {<<"dist/", "a.tar">>, <<"..">>}

\* Utf8Path::file_name
file_name(path) ==
    IF path[Len(path)] = ".." THEN None ELSE Some(<<path[Len(path)]>>)

ReleaseKeys ==
    {[tag |-> <<"v1">>, version |-> <<"1.0.0">>, is_prerelease |-> FALSE],
     [tag |-> <<"v2-rc">>, version |-> <<"2.0.0-rc">>, is_prerelease |-> TRUE]}

\* the Releases create_release builds (announce_url comes from the set)
Releases ==
    {[package |-> s.package, tag |-> key.tag, release_download_url |-> None,
      announce_url |-> s.announce_url] :
        s \in ArtifactSets \ {MockSet}, key \in ReleaseKeys}

AnnouncementKeys == {[body |-> <<"released!">>]}

\* the (set, file) pairs the nested loops of upload_files visit, in order
RECURSIVE UploadUnits(_)
UploadUnits(files) ==
    IF files = <<>> THEN <<>>
    ELSE [i \in 1..Len(Head(files)[2]) |->
             [set |-> Head(files)[1], file |-> Head(files)[2][i]]]
         \o UploadUnits(Tail(files))

\* the inputs of upload_files, bounded by the number of files in all
UploadInputs ==
    {fs \in SeqsUpTo(ArtifactSets \X SeqsUpTo(Paths, MaxItems), MaxItems) :
        Len(UploadUnits(fs)) <= MaxItems}

\* the client every bulk operation of the model runs on
TheSourceHost == <<"github">>
TheOwner == <<"axodotdev">>

---------------------------------------------------------------------------
(* The bulk operations: a spawn loop, the tasks, and join_all *)

\* the responses the tasks of the model can get: a consistent success and a
\* consistent failure
GoodResponse ==
    [status |-> 200, readable |-> TRUE,
     text |-> JsonText([success |-> "true",
                        result |-> [is |-> "value", payload |-> "payloadA"],
                        errors |-> [is |-> "absent"]])]
BadResponse ==
    [status |-> 404, readable |-> TRUE,
     text |-> JsonText([success |-> "false", result |-> [is |-> "absent"],
                        errors |-> [is |-> "array",
                                    items |-> << <<"e1">> >>]])]
TaskResponses == {GoodResponse, BadResponse}

\* struct ArtifactSetResponse, as read from a payload
ArtifactSetResponse(p) ==
    IF p = "payloadA"
    THEN [public_id |-> <<"id1">>, set_download_url |-> None,
          upload_url |-> None, release_url |-> None, announce_url |-> None]
    ELSE [public_id |-> <<"id2">>,
          set_download_url |-> Some(<<"https://", "cdn.example", "/dl">>),
          upload_url |-> Some(<<"https://", "cdn.example", "/up">>),
          release_url |-> Some(<<"https://", "cdn.example", "/rel">>),
          announce_url |-> Some(<<"https://", "cdn.example", "/ann">>)]

\* struct ReleaseResponse, as read from a payload
ReleaseResponse(p) ==
    IF p = "payloadA"
    THEN [release_download_url |-> None]
    ELSE [release_download_url |-> Some(<<"https://", "cdn.example", "/r">>)]

\* a variant that sends every request to the root of the URL's server
Request_to_server_root(c, t) ==
    [method |-> "POST", url |-> [t.url EXCEPT !.path = <<"/">>],
     headers |-> c.auth_headers, body |-> [is |-> "none"]]

\* the request a task sends
Request(c, t) ==
    CASE t.kind = "create_artifact_set" ->
           [method |-> "POST", url |-> t.url, headers |-> c.auth_headers,
            body |-> [is |-> "none"]]
      [] t.kind = "upload_file" ->
           [method |-> "POST", url |-> t.url,
            headers |-> c.auth_headers
                \cup {<<"content-type", <<"application/octet-stream">> >>},
            body |-> [is |-> "bytes", of |-> t.arg.file]]
      [] t.kind = "create_release" ->
           [method |-> "POST", url |-> t.url, headers |-> c.auth_headers,
            body |-> [is |-> "json",
                      release |-> [artifact_set_id |-> t.arg.set_id,
                                   tag |-> t.arg.key.tag,
                                   version |-> t.arg.key.version,
                                   is_prerelease |-> t.arg.key.is_prerelease]]]
      [] t.kind = "create_announcement" ->
           [method |-> "POST", url |-> t.url, headers |-> c.auth_headers,
            body |-> [is |-> "json", releases |-> t.arg.releases,
                      body |-> t.arg.announcement.body]]
      [] t.kind = "list_releases" ->
           [method |-> "GET", url |-> t.url, headers |-> c.auth_headers,
            body |-> [is |-> "none"]]

\* what a task returns once its response r is there (ResultInner<T>)
TaskReturn(t, r) ==
    CASE t.kind = "create_artifact_set" ->
           LET pr == process_response(r) IN
           IF IsErr(pr) THEN pr
           ELSE LET a == ArtifactSetResponse(pr.val) IN
                Ok([package |-> t.arg.package, public_id |-> a.public_id,
                    set_download_url |-> a.set_download_url,
                    upload_url |-> a.upload_url,
                    release_url |-> a.release_url,
                    announce_url |-> a.announce_url])
      [] t.kind = "upload_file" ->
           LET pr == process_response_basic(r) IN
           IF IsErr(pr) THEN pr ELSE Ok(Unit)
      [] t.kind = "create_release" ->
           LET pr == process_response(r) IN
           IF IsErr(pr) THEN pr
           ELSE Ok([package |-> t.arg.package, tag |-> t.arg.key.tag,
                    release_download_url |->
                        ReleaseResponse(pr.val).release_download_url,
                    announce_url |-> t.arg.announce_url])
      [] t.kind = "create_announcement" -> process_response_basic(r)
      [] t.kind = "list_releases" ->
           LET pr == process_response(r) IN
           IF IsErr(pr) THEN pr ELSE Ok([package |-> t.arg.package])

\* tokio::spawn(async move { .. }): a task that has not run yet
NewTask(kind, url, arg) ==
    [kind |-> kind, url |-> url, arg |-> arg, state |-> "spawned",
     request |-> None, result |-> NoRet]

\* a variant that lets every ArtifactSet through
reject_mock_never(artifact_set) == Ok(Unit)

reject_mock(artifact_set) ==
    IF is_mock(artifact_set) THEN Err([kind |-> "IsMocked"]) ELSE Ok(Unit)

\* a variant in which the handles dropped by a return abort their tasks
drop_handles_aborting(ts) ==
    [h \in DOMAIN ts |->
        IF ts[h].state = "done" THEN ts[h]
        ELSE [ts[h] EXCEPT !.state = "aborted"]]

\* the JoinHandles still held in queries are dropped when the operation
\* returns early (the `?`): a dropped JoinHandle detaches its task, which
\* goes on running
drop_handles(ts) == ts

\* a variant that joins the tasks launched so far before giving up on a
\* unit that does not validate
Iteration_joining_first(n, desc, v, kind, arg) ==
    IF IsErr(v)
    THEN /\ ret' = IF queries = <<>> THEN Err(GazenotError_new(desc, v.err))
                   ELSE ret
         /\ pc' = IF queries = <<>> THEN "returned" ELSE "join"
         /\ UNCHANGED <<k, queries, tasks>>
    ELSE /\ queries' = Append(queries, [desc |-> desc, url |-> v.val,
                                        handle |-> Len(tasks) + 1])
         /\ tasks' = Append(tasks, NewTask(kind, v.val, arg))
         /\ k' = k + 1
         /\ pc' = IF k = n THEN "join" ELSE "spawn"
         /\ ret' = ret

\* a variant that passes over a unit that does not validate and goes on to
\* the next one, giving up only when the unit is the last
Iteration_skipping_invalid(n, desc, v, kind, arg) ==
    IF IsErr(v)
    THEN /\ ret' = IF k = n THEN Err(GazenotError_new(desc, v.err)) ELSE ret
         /\ pc' = IF k = n THEN "returned" ELSE "spawn"
         /\ k' = IF k = n THEN k ELSE k + 1
         /\ UNCHANGED <<queries, tasks>>
    ELSE /\ queries' = Append(queries, [desc |-> desc, url |-> v.val,
                                        handle |-> Len(tasks) + 1])
         /\ tasks' = Append(tasks, NewTask(kind, v.val, arg))
         /\ k' = k + 1
         /\ pc' = IF k = n THEN "join" ELSE "spawn"
         /\ ret' = ret

\* a variant that spawns the unit's task before looking at its validation
Iteration_spawning_first(n, desc, v, kind, arg) ==
    IF IsErr(v)
    THEN /\ ret' = Err(GazenotError_new(desc, v.err))
         /\ pc' = "returned"
         /\ tasks' = Append(tasks, NewTask(kind, v, arg))
         /\ UNCHANGED <<k, queries>>
    ELSE /\ queries' = Append(queries, [desc |-> desc, url |-> v.val,
                                        handle |-> Len(tasks) + 1])
         /\ tasks' = Append(tasks, NewTask(kind, v.val, arg))
         /\ k' = k + 1
         /\ pc' = IF k = n THEN "join" ELSE "spawn"
         /\ ret' = ret

\* the end of one iteration of a spawn loop of n units: the `?` on the
\* validation result v (the URL, or the error that came before it), and
\* otherwise queries.push((desc, url.clone(), tokio::spawn(..)))
Iteration(n, desc, v, kind, arg) ==
    IF IsErr(v)
    THEN /\ ret' = Err(GazenotError_new(desc, v.err))
         /\ pc' = "returned"
         /\ tasks' = drop_handles(tasks)
         /\ UNCHANGED <<k, queries>>
    ELSE /\ queries' = Append(queries, [desc |-> desc, url |-> v.val,
                                        handle |-> Len(tasks) + 1])
         /\ tasks' = Append(tasks, NewTask(kind, v.val, arg))
         /\ k' = k + 1
         /\ pc' = IF k = n THEN "join" ELSE "spawn"
         /\ ret' = ret

\* a call of a bulk operation: the spawn loop starts, or, over an empty
\* input, join_all is reached at once
Call(o, n) ==
    /\ op' = o
    /\ pc' = IF n = 0 THEN "join" ELSE "spawn"
    /\ UNCHANGED <<clientVars, classifyVars, urlVars, k, derived, queries,
                   tasks, j, results, ret, completed>>

Desc(what, package) ==
    <<what>> \o client.source_host \o <<"/">> \o client.owner \o <<"/">>
    \o package

create_artifact_sets ==
    /\ pc = "idle"
    /\ \E packages \in SeqsUpTo(Packages, MaxItems) :
           Call([kind |-> "create_artifact_sets", items |-> packages],
                Len(packages))

create_artifact_sets_loop ==
    /\ pc = "spawn" /\ op.kind = "create_artifact_sets"
    /\ LET package == op.items[k]
           desc == Desc("create hosting for ", package)
           url == create_artifact_set_url(client, package)
       IN  /\ derived' = Append(derived, url)
           /\ Iteration(Len(op.items), desc, url, "create_artifact_set",
                        [package |-> package])
    /\ UNCHANGED <<clientVars, classifyVars, urlVars, op, j, results,
                   completed>>

upload_files ==
    /\ pc = "idle"
    /\ \E files \in UploadInputs :
           Call([kind |-> "upload_files", items |-> files],
                Len(UploadUnits(files)))

upload_files_loop ==
    /\ pc = "spawn" /\ op.kind = "upload_files"
    /\ LET units == UploadUnits(op.items)
           set == units[k].set
           file == units[k].file
           filename == file_name(file)
       IN  IF ~IsSome(filename)
           THEN \* file.file_name().unwrap() panics
                /\ pc' = "panicked"
                /\ UNCHANGED <<k, derived, queries, tasks, ret>>
           ELSE LET desc == <<"upload ">> \o filename.v
                            \o Desc(" to hosting for ", set.package)
                    mock == reject_mock(set)
                    url == upload_artifact_set_url(client, set, filename.v)
                IN  IF IsErr(mock)
                    THEN /\ derived' = derived
                         /\ Iteration(Len(units), desc, mock, "upload_file",
                                      [file |-> file])
                    ELSE /\ derived' = Append(derived, url)
                         /\ Iteration(Len(units), desc, url, "upload_file",
                                      [file |-> file])
    /\ UNCHANGED <<clientVars, classifyVars, urlVars, op, j, results,
                   completed>>

create_releases ==
    /\ pc = "idle"
    /\ \E releases \in SeqsUpTo(ArtifactSets \X ReleaseKeys, MaxItems) :
           Call([kind |-> "create_releases", items |-> releases],
                Len(releases))

create_releases_loop ==
    /\ pc = "spawn" /\ op.kind = "create_releases"
    /\ LET set == op.items[k][1]
           key == op.items[k][2]
           desc == Desc("create release for ", set.package)
           mock == reject_mock(set)
           url == create_release_url(client, set)
           arg == [set_id |-> set.public_id, package |-> set.package,
                   announce_url |-> set.announce_url, key |-> key]
       IN  IF IsErr(mock)
           THEN /\ derived' = derived
                /\ Iteration(Len(op.items), desc, mock, "create_release", arg)
           ELSE /\ derived' = Append(derived, url)
                /\ Iteration(Len(op.items), desc, url, "create_release", arg)
    /\ UNCHANGED <<clientVars, classifyVars, urlVars, op, j, results,
                   completed>>

list_releases_many ==
    /\ pc = "idle"
    /\ \E packages \in SeqsUpTo(Packages, MaxItems) :
           Call([kind |-> "list_releases_many", items |-> packages],
                Len(packages))

list_releases_many_loop ==
    /\ pc = "spawn" /\ op.kind = "list_releases_many"
    /\ LET package == op.items[k]
           desc == Desc("get releases for ", package)
           url == list_releases_url(client, package)
       IN  /\ derived' = Append(derived, url)
           /\ Iteration(Len(op.items), desc, url, "list_releases",
                        [package |-> package])
    /\ UNCHANGED <<clientVars, classifyVars, urlVars, op, j, results,
                   completed>>

\* a variant that stands in a release when the slice is empty
first_or_any(rs) ==
    IF rs = <<>> THEN Some(CHOOSE r \in Releases : TRUE) ELSE Some(rs[1])

\* slice::first
first(rs) == IF rs = <<>> THEN None ELSE Some(rs[1])

\* a variant that announces the first release only
AnnounceReleaseKeys_first_only(releases) ==
    << [package |-> releases[1].package, tag |-> releases[1].tag] >>

\* releases.iter().map(|r| AnnounceReleaseKey { package, tag }).collect()
AnnounceReleaseKeys(releases) ==
    [i \in 1..Len(releases) |->
        [package |-> releases[i].package, tag |-> releases[i].tag]]

\* create_announcements up to its join: the empty input returns at once;
\* otherwise one URL is derived from the first release and one task is
\* spawned for all the releases
create_announcements ==
    /\ pc = "idle"
    /\ \E releases \in SeqsUpTo(Releases, MaxItems),
          announcement \in AnnouncementKeys :
         /\ op' = [kind |-> "create_announcements", items |-> releases,
                   announcement |-> announcement]
         /\ IF ~IsSome(first(releases))
            THEN /\ ret' = Ok(Unit)
                 /\ pc' = "returned"
                 /\ UNCHANGED <<k, derived, queries, tasks>>
            ELSE LET some_release == first(releases).v
                     desc == Desc("create announcement for ",
                                  some_release.tag)
                     url == create_announcement_url(client, some_release)
                     keys == AnnounceReleaseKeys(releases)
                 IN  /\ derived' = Append(derived, url)
                     /\ Iteration(1, desc, url, "create_announcement",
                                  [releases |-> keys,
                                   announcement |-> announcement])
    /\ UNCHANGED <<clientVars, classifyVars, urlVars, j, results, completed>>

\* the result is wrapped by the caller of join_all: upload_files and
\* create_announcements return Ok(()) in place of the Vec
Finish(kind, rs) ==
    IF kind \in {"upload_files", "create_announcements"}
    THEN Ok(Unit) ELSE Ok(rs)

\* a variant that walks the queries from the last one
awaited_from_last(qs, i) == qs[Len(qs) + 1 - i]

\* a variant that turns to a later query as soon as its task has failed
awaited_first_failure(qs, i) ==
    LET failed == {n \in i..Len(qs) :
                     /\ tasks[qs[n].handle].state = "done"
                     /\ \/ IsErr(tasks[qs[n].handle].result)
                        \/ IsErr(tasks[qs[n].handle].result.val)}
    IN  IF failed = {} THEN qs[i]
        ELSE qs[CHOOSE n \in failed : \A m \in failed : n <= m]

\* the query join_all awaits in its i-th iteration
awaited(qs, i) == qs[i]

\* a variant that takes a JoinError for a success
join_result_lenient(result) ==
    IF IsErr(result) THEN Ok(Unit) ELSE result.val

\* query.await.map_err(..)?.map_err(..)?: the JoinError of the handle, or
\* else the task's own Result
join_result(result) ==
    IF IsErr(result) THEN Err(result.err) ELSE result.val

\* one iteration of join_all (and its return): the awaited task must have
\* finished
join_all ==
    /\ pc = "join"
    /\ IF queries = <<>>
       THEN /\ ret' = Finish(op.kind, <<>>)
            /\ pc' = "returned"
            /\ UNCHANGED <<j, results, tasks>>
       ELSE LET q == awaited(queries, j)
                t == tasks[q.handle]
                r == join_result(t.result)
            IN  /\ t.state = "done"
                /\ IF IsErr(r)
                   THEN /\ ret' = Err(GazenotError_with_url(
                                        q.desc, Url_to_string(q.url), r.err))
                        /\ pc' = "returned"
                        /\ tasks' = drop_handles(tasks)
                        /\ UNCHANGED <<j, results>>
                   ELSE /\ results' = Append(results, r.val)
                        /\ tasks' = tasks
                        /\ j' = j + 1
                        /\ IF j = Len(queries)
                           THEN /\ ret' = Finish(op.kind, results')
                                /\ pc' = "returned"
                           ELSE /\ ret' = ret
                                /\ pc' = pc
    /\ UNCHANGED <<clientVars, classifyVars, urlVars, op, k, derived,
                   queries, completed>>

taskFrame == <<clientVars, classifyVars, urlVars, pc, op, k, derived,
               queries, j, results, ret>>

TaskDone(h, r) ==
    /\ tasks' = [tasks EXCEPT ![h].state = "done", ![h].result = r]
    /\ completed' = Append(completed, h)

\* a task sends its request (for an upload, after loading the file)
TaskSend ==
    \E h \in 1..Len(tasks) :
        /\ tasks[h].state = "spawned"
        /\ tasks' = [tasks EXCEPT ![h].state = "sent",
                        ![h].request = Some(Request(client, tasks[h]))]
        /\ UNCHANGED <<taskFrame, completed>>

\* LocalAsset::load fails: the upload task ends before any request
TaskLoadFails ==
    \E h \in 1..Len(tasks) :
        /\ tasks[h].state = "spawned" /\ tasks[h].kind = "upload_file"
        /\ TaskDone(h, Ok(Err([kind |-> "Asset"])))
        /\ UNCHANGED taskFrame

\* send() fails, or the response arrives and is classified
TaskReceive ==
    \E h \in 1..Len(tasks) :
        /\ tasks[h].state = "sent"
        /\ \/ TaskDone(h, Ok(Err(ReqwestError)))
           \/ \E r \in TaskResponses :
                 TaskDone(h, Ok(TaskReturn(tasks[h], r)))
        /\ UNCHANGED taskFrame

\* the task panics: its JoinHandle yields a JoinError
TaskPanics ==
    \E h \in 1..Len(tasks) :
        /\ tasks[h].state \in {"spawned", "sent"}
        /\ TaskDone(h, Err([kind |-> "JoinError"]))
        /\ UNCHANGED taskFrame

\* the token a successful authenticated construction found
TheEnv == [state |-> "set", value |-> <<"s3cret">>]

\* a bulk operation starts from the client Gazenot::new returned
Init ==
    /\ env = TheEnv
    /\ envReads = 1
    /\ args = [fn |-> "new", source_host |-> TheSourceHost,
               owner |-> TheOwner]
    /\ newRet = Gazenot_new(env, TheSourceHost, TheOwner, TRUE)
    /\ client = newRet.val
    /\ OpAtRest /\ ClassifyAtRest /\ UrlAtRest

Next ==
    \/ create_artifact_sets \/ create_artifact_sets_loop
    \/ upload_files \/ upload_files_loop
    \/ create_releases \/ create_releases_loop
    \/ list_releases_many \/ list_releases_many_loop
    \/ create_announcements
    \/ join_all
    \/ TaskSend \/ TaskLoadFails \/ TaskReceive \/ TaskPanics

Spec == Init /\ [][Next]_vars

\* scheduling: the runtime polls every spawned task, and every request
\* sent ends, in a response or in an error, within the client's timeout
Fairness == WF_vars(TaskSend) /\ WF_vars(TaskReceive)

\* upload_files called with one file per ArtifactSet: how the files are
\* grouped decides the order of the units, not the steps of their tasks
upload_files_singly ==
    /\ pc = "idle"
    /\ \E files \in {fs \in UploadInputs :
                        \A i \in 1..Len(fs) : Len(fs[i][2]) = 1} :
           Call([kind |-> "upload_files", items |-> files],
                Len(UploadUnits(files)))

NextFair ==
    \/ create_artifact_sets \/ create_artifact_sets_loop
    \/ upload_files_singly \/ upload_files_loop
    \/ create_releases \/ create_releases_loop
    \/ list_releases_many \/ list_releases_many_loop
    \/ create_announcements
    \/ join_all
    \/ TaskSend \/ TaskLoadFails \/ TaskReceive \/ TaskPanics

SpecFair == Init /\ [][NextFair]_vars /\ Fairness

---------------------------------------------------------------------------
(* The classifiers on every response: a harness that hands one response to  *)
(* process_response and to process_response_basic                          *)

\* the variables of the client, before any construction
ClientAtRest ==
    /\ env = [state |-> "unset"] /\ envReads = 0 /\ args = NoArgs
    /\ newRet = NoRet /\ client = NoClient

InitClassify ==
    /\ ClientAtRest /\ OpAtRest /\ UrlAtRest
    /\ resp \in Responses
    /\ out = [typed |-> NoRet, basic |-> NoRet]

ProcessResponse ==
    /\ out.typed = NoRet
    /\ out' = [out EXCEPT !.typed = process_response(resp)]
    /\ UNCHANGED <<resp, clientVars, opVars, urlVars>>

ProcessResponseBasic ==
    /\ out.basic = NoRet
    /\ out' = [out EXCEPT !.basic = process_response_basic(resp)]
    /\ UNCHANGED <<resp, clientVars, opVars, urlVars>>

NextClassify == ProcessResponse \/ ProcessResponseBasic

SpecClassify == InitClassify /\ [][NextClassify]_vars

---------------------------------------------------------------------------
(* URL derivation on every client and entity: a harness that calls one of    *)
(* the six derivations of a constructed client                              *)

\* identities made of characters a URL takes as they are
PercentSafe(s) == \A i \in 1..Len(s) : s[i] \notin InvalidHeaderTokens

\* file names a caller hands to the upload and download derivations
Filenames == {<<"a.tar">>, <<"notes.txt">>}

\* the derivation named by a.fn, applied by client c to the arguments in a
UrlDerivation(c, a) ==
    CASE a.fn = "create_artifact_set_url" ->
           create_artifact_set_url(c, a.package)
      [] a.fn = "download_artifact_set_url" ->
           download_artifact_set_url(c, a.set, a.filename)
      [] a.fn = "upload_artifact_set_url" ->
           upload_artifact_set_url(c, a.set, a.filename)
      [] a.fn = "create_release_url" -> create_release_url(c, a.set)
      [] a.fn = "create_announcement_url" ->
           create_announcement_url(c, a.release)
      [] a.fn = "list_releases_url" -> list_releases_url(c, a.package)

\* a client either constructor returned, for a percent-safe identity
InitUrl ==
    /\ env = TheEnv
    /\ \E sh \in {x \in SourceHosts : PercentSafe(x)},
          ow \in {x \in Owners : PercentSafe(x)}, authed \in BOOLEAN :
         /\ args = [fn |-> IF authed THEN "new" ELSE "new_unauthed",
                    source_host |-> sh, owner |-> ow]
         /\ envReads = IF authed THEN 1 ELSE 0
         /\ newRet = IF authed THEN Gazenot_new(env, sh, ow, TRUE)
                     ELSE Gazenot_new_unauthed(sh, ow, TRUE)
    /\ client = newRet.val
    /\ OpAtRest /\ ClassifyAtRest /\ UrlAtRest

\* one call of a derivation: its arguments and what it returned
UrlCall(a) ==
    /\ urlArgs' = a
    /\ urlRet' = UrlDerivation(client, a)
    /\ UNCHANGED <<clientVars, opVars, classifyVars>>

CreateArtifactSetUrl ==
    /\ urlRet = NoRet
    /\ \E package \in Packages :
           UrlCall([fn |-> "create_artifact_set_url", package |-> package])

DownloadArtifactSetUrl ==
    /\ urlRet = NoRet
    /\ \E set \in ArtifactSets, filename \in Filenames :
           UrlCall([fn |-> "download_artifact_set_url", set |-> set,
                    filename |-> filename])

UploadArtifactSetUrl ==
    /\ urlRet = NoRet
    /\ \E set \in ArtifactSets, filename \in Filenames :
           UrlCall([fn |-> "upload_artifact_set_url", set |-> set,
                    filename |-> filename])

CreateReleaseUrl ==
    /\ urlRet = NoRet
    /\ \E set \in ArtifactSets :
           UrlCall([fn |-> "create_release_url", set |-> set])

CreateAnnouncementUrl ==
    /\ urlRet = NoRet
    /\ \E release \in Releases :
           UrlCall([fn |-> "create_announcement_url", release |-> release])

ListReleasesUrl ==
    /\ urlRet = NoRet
    /\ \E package \in Packages :
           UrlCall([fn |-> "list_releases_url", package |-> package])

NextUrl ==
    \/ CreateArtifactSetUrl \/ DownloadArtifactSetUrl
    \/ UploadArtifactSetUrl \/ CreateReleaseUrl
    \/ CreateAnnouncementUrl \/ ListReleasesUrl

SpecUrl == InitUrl /\ [][NextUrl]_vars

---------------------------------------------------------------------------
(* Claims about the bulk operations (checked under Spec) *)

\* the number of units of work in the input of operation o
NumUnits(o) ==
    CASE o.kind = "upload_files" -> Len(UploadUnits(o.items))
      [] o.kind = "create_announcements" -> IF o.items = <<>> THEN 0 ELSE 1
      [] OTHER -> Len(o.items)

Called == op # NoOp
\* every unit validated, so every unit has its task
AllValidated == Called /\ Len(queries) = NumUnits(op)

TaskSucceeded(h) ==
    /\ tasks[h].state = "done" /\ IsOk(tasks[h].result)
    /\ IsOk(tasks[h].result.val)
TaskFailed(h) ==
    /\ tasks[h].state = "done"
    /\ (IsErr(tasks[h].result) \/ IsErr(tasks[h].result.val))
\* the failure of a failed task: the JoinError or the task's own error
TaskFailure(h) ==
    IF IsErr(tasks[h].result) THEN tasks[h].result.err
    ELSE tasks[h].result.val.err

Min(S) == CHOOSE x \in S : \A y \in S : x <= y

\* the package input item i of a Vec-returning operation is about, and its
\* tag when the item is a release to create
ItemPackage(i) ==
    IF op.kind = "create_releases" THEN op.items[i][1].package
    ELSE op.items[i]

\* C1: when create_artifact_sets, create_releases or list_releases_many
\* has returned over N items that all validated and whose tasks all
\* succeeded, the result has exactly N entries and entry i is the outcome
\* of the task of input item i, in whatever order the tasks completed.
C1_ResultsInInputOrder ==
    (/\ Called /\ pc = "returned"
     /\ op.kind \in {"create_artifact_sets", "create_releases",
                     "list_releases_many"}
     /\ AllValidated
     /\ \A h \in 1..Len(tasks) : TaskSucceeded(h))
    => /\ IsOk(ret)
       /\ Len(ret.val) = Len(op.items)
       /\ \A i \in 1..Len(op.items) :
            /\ ret.val[i] = tasks[queries[i].handle].result.val.val
            /\ ret.val[i].package = ItemPackage(i)
            /\ op.kind = "create_releases"
                 => ret.val[i].tag = op.items[i][2].tag

\* two different items, the second one's task finished first
C1_Witness ==
    /\ Called /\ pc = "returned" /\ op.kind = "create_releases"
    /\ Len(op.items) = 2 /\ completed = <<2, 1>>
    /\ IsOk(ret) /\ Len(ret.val) = 2
    /\ ret.val[1].package = <<"app">> /\ ret.val[2].package = <<"lib">>
    /\ ret.val[2].tag = <<"v2-rc">>

\* C2: when a bulk operation over items that all validated has returned and
\* at least one task has failed, it returned an error (no list of
\* successes), and the error is the failure of the failed task with the
\* smallest input index, decorated with that item's description and URL,
\* whichever task failed first in time.
C2_FirstFailureInInputOrder ==
    (/\ Called /\ pc = "returned" /\ AllValidated
     /\ \E h \in 1..Len(tasks) : TaskFailed(h))
    => LET m == Min({h \in 1..Len(tasks) : TaskFailed(h)}) IN
       /\ IsErr(ret)
       /\ ret.err = GazenotError_with_url(queries[m].desc,
                        Url_to_string(queries[m].url), TaskFailure(m))

\* both tasks failed, differently, and the second failed first
C2_Witness ==
    /\ Called /\ pc = "returned" /\ op.kind = "create_artifact_sets"
    /\ Len(tasks) = 2 /\ completed = <<2, 1>>
    /\ TaskFailed(1) /\ TaskFailed(2)
    /\ TaskFailure(1) # TaskFailure(2)
    /\ queries[1].desc # queries[2].desc
    /\ IsErr(ret) /\ ret.err.cause = TaskFailure(1)

\* the units of an operation that checks for the mock sentinel
MockCheckedUnits ==
    IF op.kind = "upload_files" THEN UploadUnits(op.items)
    ELSE [i \in 1..Len(op.items) |-> [set |-> op.items[i][1]]]
MockUnits ==
    {i \in 1..Len(MockCheckedUnits) : is_mock(MockCheckedUnits[i].set)}
RequestsSent == {h \in 1..Len(tasks) : IsSome(tasks[h].request)}

\* C3 as stated: once upload_files or create_releases, called with an
\* input holding a mock ArtifactSet, has returned, it returned the
\* mock-rejection error, no task was launched for any item and no request
\* was sent.
C3_Original ==
    (/\ Called /\ op.kind \in {"upload_files", "create_releases"}
     /\ MockUnits # {} /\ pc = "returned")
    => /\ IsErr(ret) /\ ret.err.cause = [kind |-> "IsMocked"]
       /\ tasks = <<>>
       /\ RequestsSent = {}

\* iteration i of the spawn loop has run
Visited(i) == k > i \/ (k = i /\ pc \in {"returned", "panicked"})

\* the description upload_files and create_releases give unit i
MockCheckedDesc(i) ==
    LET u == MockCheckedUnits[i] IN
    IF op.kind = "upload_files"
    THEN <<"upload ">> \o file_name(u.file).v
         \o Desc(" to hosting for ", u.set.package)
    ELSE Desc("create release for ", u.set.package)

\* C3 amended: no task is ever launched and no request ever sent for a
\* mock ArtifactSet's item or for any item after it; and once the spawn
\* loop of upload_files or create_releases has reached the mock check of
\* such an item, the operation has returned the mock-rejection error
\* decorated with that item's description, while the tasks of the items
\* before it (all of them not mock) have been launched and may send their
\* requests.
C3_MockRejected ==
    (Called /\ op.kind \in {"upload_files", "create_releases"}
     /\ MockUnits # {})
    => LET m == Min(MockUnits) IN
       /\ Len(tasks) < m
       /\ \A h \in RequestsSent : h < m /\ ~is_mock(MockCheckedUnits[h].set)
       /\ (Visited(m) /\ (op.kind = "upload_files"
                            => IsSome(file_name(MockCheckedUnits[m].file))))
            => /\ pc = "returned"
               /\ ret = Err(GazenotError_new(MockCheckedDesc(m),
                                             [kind |-> "IsMocked"]))
               /\ Len(tasks) = m - 1

\* the mock is the second item: rejected, after the first item's task was
\* launched and sent its request
C3_Witness ==
    /\ Called /\ op.kind = "create_releases" /\ MockUnits = {2}
    /\ pc = "returned" /\ ret.err.cause = [kind |-> "IsMocked"]
    /\ Len(tasks) = 1 /\ RequestsSent = {1}

\* C4: create_announcements over an empty collection returns success
\* without deriving a URL, launching a task or sending a request.
C4_EmptyAnnouncement ==
    (Called /\ op.kind = "create_announcements" /\ op.items = <<>>)
    => /\ pc = "returned" /\ ret = Ok(Unit)
       /\ derived = <<>> /\ queries = <<>> /\ tasks = <<>>
       /\ RequestsSent = {}

C4_Witness ==
    /\ Called /\ op.kind = "create_announcements" /\ op.items = <<>>
    /\ pc = "returned" /\ ret = Ok(Unit)

\* C14: create_announcements over a non-empty collection of N releases
\* launches one task, whatever N is, and that task sends at most one
\* request; the request lists the (package, tag) of all N releases in input
\* order, and its URL is derived from the first release alone: its
\* announce_url when it has one, the default announcements endpoint
\* otherwise. (When the first release's announce_url is not a URL, the
\* operation has returned that error with no task launched.)
C14_OneAnnouncement ==
    (Called /\ op.kind = "create_announcements" /\ op.items # <<>>)
    => LET some_release == op.items[1]
           expected == IF IsSome(some_release.announce_url)
                       THEN some_release.announce_url.v
                       ELSE <<"https://">> \o API_SERVER \o <<"/">>
                            \o client.source_host \o <<"/">>
                            \o client.owner \o <<"/announcements">>
           listed == [i \in 1..Len(op.items) |->
                        [package |-> op.items[i].package,
                         tag |-> op.items[i].tag]]
       IN  /\ Len(tasks) <= 1 /\ Len(queries) = Len(tasks)
           /\ Len(derived) = 1
           /\ IF IsErr(Url_from_str(expected))
              THEN /\ tasks = <<>> /\ pc = "returned"
                   /\ IsErr(ret) /\ ret.err.cause.kind = "UrlError"
              ELSE /\ Len(tasks) = 1
                   /\ tasks[1].kind = "create_announcement"
                   /\ Url_to_string(tasks[1].url) = expected
                   /\ Url_to_string(queries[1].url) = expected
                   /\ tasks[1].arg.releases = listed
                   /\ IsSome(tasks[1].request) =>
                        /\ Url_to_string(tasks[1].request.v.url) = expected
                        /\ tasks[1].request.v.body.releases = listed
                        /\ tasks[1].request.v.body.body
                             = op.announcement.body

\* two releases of different packages with different announce endpoints:
\* one request, to the first one's endpoint, listing both
C14_Witness ==
    /\ Called /\ op.kind = "create_announcements" /\ Len(op.items) = 2
    /\ ~IsSome(op.items[1].announce_url) /\ IsSome(op.items[2].announce_url)
    /\ Len(tasks) = 1 /\ IsSome(tasks[1].request)
    /\ Len(tasks[1].request.v.body.releases) = 2
    /\ tasks[1].request.v.body.releases[1].package = <<"app">>
    /\ tasks[1].request.v.body.releases[2].package = <<"lib">>
    /\ Url_to_string(tasks[1].request.v.url)
         = <<"https://", "axo-abyss.fly.dev", "/", "github", "/",
             "axodotdev", "/announcements">>

\* the steps of a task
TaskStep == TaskSend \/ TaskLoadFails \/ TaskReceive \/ TaskPanics

\* a step leaves every task there is on its way to completion: no task is
\* removed, a finished task keeps its result, an unfinished one is changed
\* by its own steps only and stays able to run
NoTaskAborted ==
    /\ Len(tasks') >= Len(tasks)
    /\ \A h \in 1..Len(tasks) :
         /\ tasks'[h].state \in {"spawned", "sent", "done"}
         /\ tasks[h].state = "done" => tasks'[h] = tasks[h]
         /\ tasks'[h] # tasks[h] => TaskStep

\* C15 (checked under SpecFair): no step cancels or aborts a spawned task,
\* and every task a bulk operation has spawned eventually completes, with
\* its own success or failure, also when the operation has returned an
\* error to the caller while the task was still in flight.
C15_TasksRunToCompletion ==
    /\ [][NoTaskAborted]_vars
    /\ \A h \in 1..MaxItems :
         [](Len(tasks) >= h
              => <>(Len(tasks) >= h /\ tasks[h].state = "done"))

\* the operation has returned the first task's failure while the second
\* task's request is still in flight
C15_Witness ==
    /\ Called /\ pc = "returned" /\ IsErr(ret)
    /\ Len(tasks) = 2 /\ TaskFailed(1) /\ tasks[2].state = "sent"

\* unit i of the operation in progress, as the spawn loop sees it
UnitOf(i) ==
    CASE op.kind = "upload_files" -> UploadUnits(op.items)[i]
      [] op.kind = "create_releases" ->
           [set |-> op.items[i][1], key |-> op.items[i][2]]
      [] op.kind = "create_announcements" -> [release |-> op.items[1]]
      [] OTHER -> [package |-> op.items[i]]

\* unit i gets as far as its validation (an upload of a path with no file
\* name does not)
HasDesc(i) ==
    op.kind = "upload_files" => IsSome(file_name(UnitOf(i).file))

\* the description of unit i
UnitDesc(i) ==
    LET u == UnitOf(i) IN
    CASE op.kind = "create_artifact_sets" ->
           Desc("create hosting for ", u.package)
      [] op.kind = "upload_files" ->
           <<"upload ">> \o file_name(u.file).v
           \o Desc(" to hosting for ", u.set.package)
      [] op.kind = "create_releases" ->
           Desc("create release for ", u.set.package)
      [] op.kind = "create_announcements" ->
           Desc("create announcement for ", u.release.tag)
      [] op.kind = "list_releases_many" ->
           Desc("get releases for ", u.package)

\* the validation of unit i: the mock check where there is one, then the
\* URL construction
UnitValidation(i) ==
    LET u == UnitOf(i) IN
    CASE op.kind = "create_artifact_sets" ->
           create_artifact_set_url(client, u.package)
      [] op.kind = "upload_files" ->
           IF is_mock(u.set) THEN Err([kind |-> "IsMocked"])
           ELSE upload_artifact_set_url(client, u.set, file_name(u.file).v)
      [] op.kind = "create_releases" ->
           IF is_mock(u.set) THEN Err([kind |-> "IsMocked"])
           ELSE create_release_url(client, u.set)
      [] op.kind = "create_announcements" ->
           create_announcement_url(client, u.release)
      [] op.kind = "list_releases_many" ->
           list_releases_url(client, u.package)

\* the units whose validation fails
InvalidUnits ==
    {i \in 1..NumUnits(op) : HasDesc(i) /\ IsErr(UnitValidation(i))}

\* the operation has returned an error that carries no URL: a validation
\* error
ValidationFailed ==
    Called /\ pc = "returned" /\ IsErr(ret) /\ ~IsSome(ret.err.url)

\* C16: in every bulk operation, when the mock check or the URL
\* construction fails for item k (the first item for which it does), no
\* task is ever launched for item k; once the spawn loop has reached item k
\* the operation has returned the error of that validation, decorated with
\* item k's description and carrying no URL; and the tasks launched for the
\* items before k are all there, none aborted, and go on taking their own
\* steps after the return.
C16_ValidationFailure ==
    /\ []((Called /\ InvalidUnits # {}) =>
            LET m == Min(InvalidUnits) IN
            /\ Len(tasks) < m
            /\ Visited(m) =>
                 /\ ValidationFailed
                 /\ ret.err.desc = UnitDesc(m)
                 /\ ret.err.cause = UnitValidation(m).err
                 /\ ret.err.url = None
                 /\ Len(tasks) = m - 1
                 /\ \A h \in 1..Len(tasks) :
                      tasks[h].state \in {"spawned", "sent", "done"})
    /\ [][ValidationFailed => NoTaskAborted]_vars

\* the second item's URL construction failed; the first item's task, launched
\* before, has since received its response
C16_Witness ==
    /\ ValidationFailed /\ op.kind = "upload_files" /\ k = 2
    /\ ret.err.cause.kind = "UrlError"
    /\ Len(tasks) = 1 /\ TaskSucceeded(1)

\* every unit of the input gets to its validation and passes it
AllUnitsValid ==
    /\ Called
    /\ \A i \in 1..NumUnits(op) : HasDesc(i) /\ IsOk(UnitValidation(i))

\* the task is the one of unit i: it holds what the unit is about
TaskIsOfUnit(t, i) ==
    LET u == UnitOf(i) IN
    CASE op.kind = "create_artifact_sets" ->
           t.kind = "create_artifact_set" /\ t.arg.package = u.package
      [] op.kind = "upload_files" ->
           t.kind = "upload_file" /\ t.arg.file = u.file
      [] op.kind = "create_releases" ->
           /\ t.kind = "create_release" /\ t.arg.key = u.key
           /\ t.arg.set_id = u.set.public_id
           /\ t.arg.package = u.set.package
      [] op.kind = "create_announcements" -> t.kind = "create_announcement"
      [] op.kind = "list_releases_many" ->
           t.kind = "list_releases" /\ t.arg.package = u.package

\* a step leaves every request that was sent as it is: a task sends once
RequestsStay ==
    \A h \in 1..Len(tasks) :
        IsSome(tasks[h].request) => tasks'[h].request = tasks[h].request

\* C17: over an input whose every item validates, a bulk operation launches
\* exactly one task per unit of work, in input order (task i is the task of
\* unit i); each task sends at most one request, to the URL resolved for its
\* own unit; and every task has been launched before join_all awaits the
\* first one.
C17_OneTaskPerUnit ==
    /\ [](AllUnitsValid =>
            /\ Len(tasks) <= NumUnits(op) /\ Len(queries) = Len(tasks)
            /\ pc = "spawn" =>
                 Len(tasks) = k - 1 /\ j = 1 /\ results = <<>>
            /\ (pc \in {"join", "returned"} \/ j > 1) =>
                 Len(tasks) = NumUnits(op)
            /\ \A h \in 1..Len(tasks) :
                 /\ queries[h].handle = h
                 /\ queries[h].url = UnitValidation(h).val
                 /\ queries[h].desc = UnitDesc(h)
                 /\ tasks[h].url = UnitValidation(h).val
                 /\ TaskIsOfUnit(tasks[h], h)
                 /\ IsSome(tasks[h].request) =>
                      tasks[h].request.v.url = UnitValidation(h).val)
    /\ [][RequestsStay]_vars

\* files of two different ArtifactSets: two tasks, both requests sent before
\* join_all has awaited either, each to the URL of its own unit
C17_Witness ==
    /\ AllUnitsValid /\ op.kind = "upload_files" /\ NumUnits(op) = 2
    /\ op.items[1][1] # op.items[Len(op.items)][1]
    /\ pc = "join" /\ j = 1 /\ Len(tasks) = 2
    /\ IsSome(tasks[1].request) /\ IsSome(tasks[2].request)
    /\ tasks[1].request.v.url # tasks[2].request.v.url
    /\ tasks[2].request.v.url
         = [scheme |-> "https://", host |-> "cdn.example",
            path |-> <<"/up", "/", "a.tar">>]

\* the operation has returned an error that carries a URL: an error of the
\* join phase
JoinFailed ==
    Called /\ pc = "returned" /\ IsErr(ret) /\ IsSome(ret.err.url)

\* the causes a task can fail with: a panic (JoinError), a file that does
\* not load, a transport error, an error the classifier reports
TaskFailureKinds == {"JoinError", "Asset", "Reqwest", "ResponseError"}

\* C18: an error returned from the join phase is the failure of the task
\* join_all was awaiting, item j's, whatever its kind, and it is wrapped
\* with item j's own description and with the text of the URL resolved for
\* item j, the one its task's request went to.
C18_JoinErrorOfOwnItem ==
    JoinFailed =>
        LET h == queries[j].handle IN
        /\ TaskFailed(h) /\ TaskIsOfUnit(tasks[h], j)
        /\ ret.err.cause = TaskFailure(h)
        /\ ret.err.cause.kind \in TaskFailureKinds
        /\ ret.err.desc = UnitDesc(j)
        /\ Url_from_str(ret.err.url.v) = UnitValidation(j)
        /\ IsSome(tasks[h].request) =>
             Url_from_str(ret.err.url.v) = Ok(tasks[h].request.v.url)

\* the second of two releases failed at the server, the first succeeded:
\* the error names the second one's package and the second one's endpoint
C18_Witness ==
    /\ JoinFailed /\ op.kind = "create_releases" /\ Len(tasks) = 2
    /\ j = 2 /\ TaskSucceeded(1)
    /\ ret.err.cause.kind = "ResponseError"
    /\ UnitDesc(1) # UnitDesc(2)
    /\ ret.err.desc
         = <<"create release for ", "github", "/", "axodotdev", "/", "lib">>
    /\ ret.err.url = Some(<<"https://", "cdn.example", "/rel">>)

\* the error returned is the failure of item n's task
ReportsItem(n) ==
    /\ n \in 1..Len(queries) /\ TaskFailed(queries[n].handle)
    /\ ret.err = GazenotError_with_url(queries[n].desc,
                     Url_to_string(queries[n].url),
                     TaskFailure(queries[n].handle))

\* every task before item n's has completed successfully
AllBeforeSucceeded(n) ==
    \A h \in 1..(n - 1) : TaskSucceeded(queries[h].handle)

\* C19: join_all awaits the tasks in submission order. When a bulk
\* operation has returned the failure of item n from the join phase, every
\* task before n has completed successfully, and had done so already when
\* the operation returned; the tasks after n may be in any state. So as
\* long as a task before it is unfinished, the failure of a task, however
\* early it came, is not the one reported.
C19_AwaitInSubmissionOrder ==
    /\ [](JoinFailed =>
            \E n \in 1..Len(queries) :
                ReportsItem(n) /\ AllBeforeSucceeded(n) /\ n = j)
    /\ [](\A n \in 1..Len(tasks) :
            (TaskFailed(n) /\ \E h \in 1..(n - 1) : tasks[h].state # "done")
               => ~(JoinFailed /\ j = n))
    /\ [][(~JoinFailed /\ JoinFailed') =>
            \E n \in 1..Len(queries) :
                ReportsItem(n)' /\ AllBeforeSucceeded(n)]_vars

\* the second task has failed while the first has not even sent its
\* request: join_all is still waiting for the first, nothing is reported
C19_Witness ==
    /\ Called /\ pc = "join" /\ j = 1 /\ ret = NoRet
    /\ Len(tasks) = 2 /\ tasks[1].state = "spawned" /\ TaskFailed(2)

\* C20: when the validation of item n fails (the first for which it
\* does), the operation returns item n's validation error from the spawn
\* loop itself: join_all is never entered, no task of the items before n is
\* ever awaited, and what has been returned stays; so the failure of an
\* earlier item's task, whenever it comes, is never reported, and item n's
\* validation error is what the caller gets.
C20_ValidationErrorWins ==
    /\ []((Called /\ InvalidUnits # {}) =>
            /\ pc # "join" /\ j = 1 /\ results = <<>> /\ ~JoinFailed
            /\ pc = "returned" =>
                 /\ k = Min(InvalidUnits)
                 /\ ret = Err(GazenotError_new(UnitDesc(k),
                                               UnitValidation(k).err)))
    /\ [][ValidationFailed => (ret' = ret /\ pc' = pc /\ j' = j)]_vars

\* item 1's task got an error response from the server; the caller got the
\* mock rejection of item 2
C20_Witness ==
    /\ ValidationFailed /\ k = 2 /\ Len(tasks) = 1
    /\ TaskFailed(1) /\ TaskFailure(1).kind = "ResponseError"
    /\ ret.err.cause = [kind |-> "IsMocked"]
    /\ ret.err.desc = UnitDesc(2) /\ UnitDesc(2) # UnitDesc(1)

\* a step that launches a task
Launches == Len(tasks') > Len(tasks)

\* C21: validation and launching are interleaved per item, in input order.
\* While the spawn loop stands at item k, the items before k have each been
\* validated and launched and no item from k on has been; a step launches
\* at most one task, that of the item the loop stands at, and moves on to
\* the next item. So when validation fails at item m (the first for which it
\* does), the tasks there are, and the requests sent, are those of items
\* before m, each task the one of its own item; once the loop has reached
\* m, the tasks of all m - 1 items before it have been launched and the
\* operation has returned; and from then on no item is validated and no
\* task launched, whether the items after m are valid or not.
C21_InterleavedValidation ==
    /\ []((Called /\ pc = "spawn") =>
            /\ k \in 1..NumUnits(op)
            /\ Len(tasks) = k - 1 /\ Len(derived) = k - 1
            /\ \A i \in 1..(k - 1) : HasDesc(i) /\ IsOk(UnitValidation(i)))
    /\ []((Called /\ InvalidUnits # {}) =>
            LET m == Min(InvalidUnits) IN
            /\ \A h \in 1..Len(tasks) :
                 h < m /\ TaskIsOfUnit(tasks[h], h)
                 /\ tasks[h].url = UnitValidation(h).val
            /\ \A h \in RequestsSent :
                 h < m /\ tasks[h].request.v.url = UnitValidation(h).val
            /\ Len(derived) <= m
            /\ Visited(m) => pc = "returned" /\ k = m /\ Len(tasks) = m - 1)
    /\ [][Launches =>
            /\ pc = "spawn" \/ pc = "idle"
            /\ Len(tasks') = Len(tasks) + 1 /\ k' = k + 1
            /\ \E n \in 1..Len(tasks') :
                 n = k /\ n = Len(tasks') /\ TaskIsOfUnit(tasks[n], n)']_vars
    /\ [][ValidationFailed =>
            /\ ~Launches /\ k' = k /\ derived' = derived
            /\ queries' = queries]_vars

\* the first of two releases is of a mock ArtifactSet, the second one is
\* valid: the operation has returned, and nothing was derived or launched
\* for the second
C21_Witness ==
    /\ ValidationFailed /\ op.kind = "create_releases"
    /\ NumUnits(op) = 2 /\ InvalidUnits = {1}
    /\ IsOk(UnitValidation(2))
    /\ k = 1 /\ tasks = <<>> /\ derived = <<>> /\ RequestsSent = {}

---------------------------------------------------------------------------
(* Claims about construction (checked under SpecNew) *)

EnvMissingOrEmpty == env.state = "unset" \/ (env.state = "set" /\ env.value = <<>>)

\* no task was spawned, so no request was sent
NoNetworkCall == tasks = <<>>

\* the authenticated half of C10: with the variable missing or empty,
\* Gazenot::new fails, leaves no client and has issued no network call
C10_NewFails ==
    (args # NoArgs /\ args.fn = "new" /\ EnvMissingOrEmpty) =>
        /\ IsErr(newRet)
        /\ newRet.err.cause.kind = "AuthKey"
        /\ client = NoClient
        /\ NoNetworkCall

\* C10 as stated: Gazenot::new with the variable missing or empty always
\* fails with no client and no network call, and Gazenot::new_unauthed never
\* reads the variable and yields a client with an empty header set.
C10_Original ==
    /\ C10_NewFails
    /\ (args # NoArgs /\ args.fn = "new_unauthed") =>
        /\ envReads = 0
        /\ IsOk(newRet)
        /\ client # NoClient
        /\ client.auth_headers = {}

\* C10 amended: as stated for Gazenot::new; Gazenot::new_unauthed never
\* reads the variable and, whatever the variable's state, either yields a
\* client with an empty header set or, when building the HTTP client fails,
\* returns that construction error and no client.
C10_Construction ==
    /\ C10_NewFails
    /\ (args # NoArgs /\ args.fn = "new_unauthed") =>
        /\ envReads = 0
        /\ IF IsOk(newRet)
           THEN /\ client = newRet.val
                /\ client.auth_headers = {}
                /\ client.source_host = args.source_host
                /\ client.owner = args.owner
           ELSE /\ client = NoClient
                /\ newRet.err.cause = ReqwestError
                /\ NoNetworkCall

C10_Witness ==
    /\ args # NoArgs /\ args.fn = "new"
    /\ env = [state |-> "set", value |-> <<>>]
    /\ envReads = 1
    /\ IsErr(newRet) /\ newRet.err.cause.reason = "no value in env var"
    /\ client = NoClient

\* new_unauthed yields a client although the variable is unset
C10_UnauthedReached ==
    /\ args # NoArgs /\ args.fn = "new_unauthed" /\ env.state = "unset"
    /\ client # NoClient /\ client.auth_headers = {}

---------------------------------------------------------------------------
(* Claims about the classifiers (checked under SpecClassify) *)

\* a message is a synthesized consistency diagnostic
IsDiagnostic(m) ==
    /\ Len(m) > 0
    /\ m[1] = "server response inconsistently reported success -- status: "

TypedActed == out.typed # NoRet /\ resp.readable
BasicActed == out.basic # NoRet /\ resp.readable
TypedParsed == ParseResponse(resp.text)
BasicParsed == ParseBasicResponse(resp.text)

\* C5: process_response returns the payload if and only if the body parses
\* as an envelope with success == true, the status is a success code and the
\* result is present; in every other case (of a body that was read) it
\* returns a ResponseError carrying the response's status.
C5_TypedSuccessIff ==
    TypedActed =>
        LET good == /\ IsOk(TypedParsed)
                    /\ TypedParsed.val.success
                    /\ is_success(resp.status)
                    /\ IsSome(TypedParsed.val.result)
        IN  IF good
            THEN out.typed = Ok(TypedParsed.val.result.v)
            ELSE /\ IsErr(out.typed)
                 /\ out.typed.err.kind = "ResponseError"
                 /\ out.typed.err.status = resp.status

C5_Witness ==
    /\ TypedActed /\ IsOk(out.typed) /\ out.typed.val = "payloadB"

\* the cases C6 names: success == false with any status, with or without a
\* result, or a success status with success == true and no result
C6_Cases ==
    /\ TypedActed /\ IsOk(TypedParsed)
    /\ \/ ~TypedParsed.val.success
       \/ /\ is_success(resp.status) /\ TypedParsed.val.success
          /\ ~IsSome(TypedParsed.val.result)

HasDiagnostic(r) ==
    /\ IsErr(r) /\ r.err.kind = "ResponseError"
    /\ \E i \in 1..Len(r.err.errors) : IsDiagnostic(r.err.errors[i])

\* C6 as stated: in every one of those cases the error's message list
\* contains a synthesized diagnostic.
C6_Original == C6_Cases => HasDiagnostic(out.typed)

\* C6 amended: the diagnostic is there when success == false comes with a
\* success status or with a result, or when a success status and
\* success == true come without a result; a failure that is consistent
\* (success == false, no success status, no result) carries none.
C6_DiagnosticWhenInconsistent ==
    /\ (C6_Cases /\ (TypedParsed.val.success
                     \/ is_success(resp.status)
                     \/ IsSome(TypedParsed.val.result)))
          => HasDiagnostic(out.typed)
    /\ (C6_Cases /\ ~TypedParsed.val.success /\ ~is_success(resp.status)
                 /\ ~IsSome(TypedParsed.val.result))
          => (IsErr(out.typed) /\ ~HasDiagnostic(out.typed))

C6_Witness ==
    /\ C6_Cases /\ ~TypedParsed.val.success /\ ~is_success(resp.status)
    /\ IsSome(TypedParsed.val.result) /\ HasDiagnostic(out.typed)

\* the server-supplied errors followed by exactly one diagnostic
ErrorsThenOneDiagnostic(msgs, es) ==
    /\ Len(msgs) = Len(es) + 1
    /\ SubSeq(msgs, 1, Len(es)) = es
    /\ IsDiagnostic(msgs[Len(msgs)])

\* C7: when process_response classifies a parsed envelope as an error, the
\* message list is the server-supplied errors in their order, followed by
\* exactly one diagnostic when the three signals (success, status is a
\* success code, result present) are not all equal, and with nothing added
\* when they are all equal.
C7_TypedMessageList ==
    (TypedActed /\ IsOk(TypedParsed) /\ IsErr(out.typed)) =>
        LET p == TypedParsed.val
            es == IF IsSome(p.errors) THEN p.errors.v ELSE <<>>
            allEqual == /\ p.success = is_success(resp.status)
                        /\ p.success = IsSome(p.result)
        IN  /\ out.typed.err.kind = "ResponseError"
            /\ IF allEqual
               THEN out.typed.err.errors = es
               ELSE ErrorsThenOneDiagnostic(out.typed.err.errors, es)

C7_Witness ==
    /\ TypedActed /\ IsOk(TypedParsed) /\ IsErr(out.typed)
    /\ TypedParsed.val.errors = Some(<< <<"e2">>, <<"e1">> >>)
    /\ Len(out.typed.err.errors) = 3

\* C8: for both classifiers, a body that does not parse as the envelope
\* gives an error, whatever the status; the error carries the response's
\* status, and its message list is the raw body text alone when the body is
\* not empty, and is empty when the body is empty.
C8_UnparsedBody ==
    /\ (TypedActed /\ IsErr(TypedParsed)) =>
          out.typed = Err(ResponseError(resp.status,
                            IF resp.text = <<>> THEN <<>> ELSE <<resp.text>>))
    /\ (BasicActed /\ IsErr(BasicParsed)) =>
          out.basic = Err(ResponseError(resp.status,
                            IF resp.text = <<>> THEN <<>> ELSE <<resp.text>>))

C8_Witness ==
    /\ TypedActed /\ BasicActed /\ resp.text = <<>>
    /\ is_success(resp.status)
    /\ out.typed.err.errors = <<>> /\ out.basic.err.errors = <<>>

\* C9: process_response_basic returns success if and only if the body
\* parses with success == true and the status is a success code; on a
\* parsed envelope classified as an error it appends exactly one diagnostic
\* after the server-supplied errors if and only if the success flag differs
\* from status-is-success.
C9_BasicClassifier ==
    BasicActed =>
        LET good == /\ IsOk(BasicParsed) /\ BasicParsed.val.success
                    /\ is_success(resp.status)
        IN  /\ IsOk(out.basic) <=> good
            /\ (IsOk(BasicParsed) /\ ~good) =>
                 LET p == BasicParsed.val
                     es == IF IsSome(p.errors) THEN p.errors.v ELSE <<>>
                 IN  /\ IsErr(out.basic)
                     /\ out.basic.err.kind = "ResponseError"
                     /\ IF p.success # is_success(resp.status)
                        THEN ErrorsThenOneDiagnostic(out.basic.err.errors, es)
                        ELSE out.basic.err.errors = es

C9_Witness ==
    /\ BasicActed /\ IsOk(BasicParsed) /\ ~BasicParsed.val.success
    /\ is_success(resp.status)
    /\ BasicParsed.val.errors = Some(<< <<"e1">> >>)
    /\ Len(out.basic.err.errors) = 2

---------------------------------------------------------------------------
(* Claims about URL derivation (checked under SpecUrl) *)

UrlActed == urlRet # NoRet

\* the override a derivation looks at, and whether it appends the filename
OverrideOf(a) ==
    CASE a.fn = "download_artifact_set_url" -> a.set.set_download_url
      [] a.fn = "upload_artifact_set_url" -> a.set.upload_url
      [] a.fn = "create_release_url" -> a.set.release_url
      [] a.fn = "create_announcement_url" -> a.release.announce_url
      [] OTHER -> None
TakesFilename(a) ==
    a.fn \in {"download_artifact_set_url", "upload_artifact_set_url"}

\* any client at all, whatever its servers and identity
AnyClients ==
    [api_server : {API_SERVER, <<"api.example">>},
     hosting_server : {HOSTING_SERVER, <<"hosting.example">>},
     owner : Owners, source_host : SourceHosts,
     auth_headers : {EmptyHeaderMap}]

\* C11: when the override URL of the operation is set, the derivation is
\* made from the override alone: upload and download give the override
\* followed by "/" and the filename, create-release and announce give the
\* override with nothing appended (an override that is not a URL gives the
\* UrlError carrying that same string, never the default template), and
\* every client, whatever its servers, source_host and owner, derives the
\* same result.
C11_OverrideWins ==
    (UrlActed /\ IsSome(OverrideOf(urlArgs))) =>
        LET expected == IF TakesFilename(urlArgs)
                        THEN OverrideOf(urlArgs).v \o <<"/">>
                             \o urlArgs.filename
                        ELSE OverrideOf(urlArgs).v
        IN  /\ IsOk(urlRet) => Url_to_string(urlRet.val) = expected
            /\ IsErr(urlRet) =>
                 urlRet.err = [kind |-> "UrlError", input |-> expected]
            /\ IsOk(urlRet) <=> IsOk(Url_from_str(OverrideOf(urlArgs).v))
            /\ \A c \in AnyClients : UrlDerivation(c, urlArgs) = urlRet

\* an upload URL made from the server's override
C11_Witness ==
    /\ UrlActed /\ urlArgs.fn = "upload_artifact_set_url"
    /\ urlArgs.set = RelocatedSet /\ IsOk(urlRet)
    /\ Url_to_string(urlRet.val)
         = <<"https://", "cdn.example", "/up", "/", "notes.txt">>

\* the documented default templates
DefaultTemplate(c, a) ==
    CASE a.fn = "upload_artifact_set_url" ->
           <<"https://">> \o API_SERVER \o <<"/">> \o c.source_host
           \o <<"/">> \o c.owner \o <<"/">> \o a.set.package
           \o <<"/artifacts/">> \o a.set.public_id \o <<"/upload">>
           \o <<"/">> \o a.filename
      [] a.fn = "create_release_url" ->
           <<"https://">> \o API_SERVER \o <<"/">> \o c.source_host
           \o <<"/">> \o c.owner \o <<"/">> \o a.set.package
           \o <<"/releases">>
      [] a.fn = "download_artifact_set_url" ->
           <<"https://">> \o c.owner \o <<".">> \o HOSTING_SERVER
           \o <<"/">> \o a.set.package \o <<"/">> \o a.set.public_id
           \o <<"/">> \o a.filename
      [] a.fn = "create_announcement_url" ->
           <<"https://">> \o API_SERVER \o <<"/">> \o c.source_host
           \o <<"/">> \o c.owner \o <<"/announcements">>

\* the entity of a derivation is not the mock sentinel
NotMock(a) ==
    a.fn = "create_announcement_url" \/ ~is_mock(a.set)

\* C12: for a non-mock ArtifactSet (or a Release) with no override, the
\* upload, create-release, download and announce derivations succeed and
\* give the documented default template, with the client's source_host and
\* owner and the entity's package and public_id in it as they are.
C12_DefaultTemplates ==
    (/\ UrlActed
     /\ urlArgs.fn \in {"upload_artifact_set_url", "create_release_url",
                        "download_artifact_set_url",
                        "create_announcement_url"}
     /\ ~IsSome(OverrideOf(urlArgs)) /\ NotMock(urlArgs))
    => /\ IsOk(urlRet)
       /\ Url_to_string(urlRet.val) = DefaultTemplate(client, urlArgs)

\* a default create-release URL of a client that is not the one of Spec
C12_Witness ==
    /\ UrlActed /\ urlArgs.fn = "create_release_url"
    /\ urlArgs.set = PlainSet /\ IsOk(urlRet)
    /\ Url_to_string(urlRet.val)
         = <<"https://", "axo-abyss.fly.dev", "/", "gitlab", "/", "me",
             "/", "app", "/releases">>

\* C13 as stated: the list-releases URL of a package is
\* {api_server}/{source_host}/{owner}/{package}/releases, with source_host,
\* owner and package as three path segments, and is the URL the default
\* create-release derivation gives for an ArtifactSet of that package.
C13_ListReleasesUrl ==
    (UrlActed /\ urlArgs.fn = "list_releases_url") =>
        /\ IsOk(urlRet)
        /\ Url_to_string(urlRet.val)
             = <<"https://">> \o API_SERVER \o <<"/">> \o client.source_host
               \o <<"/">> \o client.owner \o <<"/">> \o urlArgs.package
               \o <<"/releases">>
        /\ \A set \in ArtifactSets :
             (set.package = urlArgs.package /\ ~IsSome(set.release_url))
                => urlRet = create_release_url(client, set)

\* what the code gives: source_host and owner run together in one segment
C13_Reached ==
    /\ UrlActed /\ urlArgs.fn = "list_releases_url"
    /\ urlArgs.package = <<"app">> /\ IsOk(urlRet)
    /\ Url_to_string(urlRet.val)
         = <<"https://", "axo-abyss.fly.dev", "/", "github", "axodotdev",
             "/", "app", "/releases">>

====
